---- MODULE Spec2Model ----
(***************************************************************************)
(* A model of vscode-fish-ide (src/src/extension.ts): the process helper   *)
(* runInWorkspace, the `fish -n` output parser parseFishErrors, the        *)
(* linting pipeline of startLinting, the two formatting providers and      *)
(* activate.                                                               *)
(*                                                                         *)
(* Text is a sequence of tokens.  Each token stands for a piece of text    *)
(* that the regular expressions of the program treat as a unit:            *)
(*   "x"   an ordinary character (not a digit, not a line terminator)      *)
(*   "L"   the literal " (line "                                           *)
(*   "R"   the literal "): "                                               *)
(*   "0","1"  the decimal digits 0 and 1                                   *)
(*   "V"   the literal "fish, version "                                    *)
(*   "NL"  a line terminator                                               *)
(***************************************************************************)
EXTENDS Integers, Sequences, FiniteSets, TLC

\* ------------------------------------------------------------------ bounds
\* longest text enumerated exhaustively as `fish -n` stderr output
MaxTextLen == 5
\* most `fish -n` children one behaviour starts
MaxRuns == 2
\* most format requests one behaviour issues
MaxRequests == 2
\* most invocations of runInWorkspace followed on their own
MaxInvocations == 1

\* Number.MAX_VALUE, any column or line larger than every document's
MAX_VALUE == 1000

\* ------------------------------------------------------- JavaScript values
Undefined == [t |-> "undefined"]
Null == [t |-> "null"]
Str(s) == [t |-> "string", v |-> s]
Num(n) == [t |-> "number", v |-> n]

\* the JavaScript comparison  value > 0 : null converts to 0, undefined and
\* a non-numeric string to NaN, and every comparison with NaN is false
GreaterThanZero(value) == value.t = "number" /\ value.v > 0

\* --------------------------------------------------------------- text
Digits == {"0", "1"}
LineTokens == {"x", "L", "R", "0", "1"}
Tokens == LineTokens \cup {"NL"}

DigitValue(t) == IF t = "1" THEN 1 ELSE 0

\* Number.parseInt of a run of decimal digits
RECURSIVE ParseInt(_)
ParseInt(digits) ==
    IF digits = <<>> THEN 0
    ELSE 10 * ParseInt(SubSeq(digits, 1, Len(digits) - 1))
         + DigitValue(digits[Len(digits)])

Min(a, b) == IF a < b THEN a ELSE b

\* the index of the last token of the line that starts at index s
\* (s - 1 when that line is empty)
RECURSIVE LineEnd(_, _)
LineEnd(text, s) ==
    IF s > Len(text) \/ text[s] = "NL" THEN s - 1 ELSE LineEnd(text, s + 1)

AllDigits(text, from, to) == \A k \in from..to : text[k] \in Digits

\* The places where /^(.+) \(line (\d+)\): (.+)$/m can match the line s..e:
\* the pairs <<i, j>> with " (line " at i, "): " at j, one or more digits in
\* between, one or more characters before i and one or more after j.
MatchSplits(text, s, e) ==
    {ij \in (s..e) \X (s..e) :
        /\ s < ij[1] /\ ij[1] + 1 < ij[2] /\ ij[2] < e
        /\ text[ij[1]] = "L" /\ text[ij[2]] = "R"
        /\ AllDigits(text, ij[1] + 1, ij[2] - 1)}

\* (.+) is greedy: of all the places the first group takes the longest
GreedySplit(splits) ==
    CHOOSE ij \in splits : \A other \in splits : other[1] <= ij[1]

\* pattern.exec at a line start s: the match array [whole, 1, 2, 3]
ExecAt(text, s) ==
    LET e == LineEnd(text, s)
        splits == MatchSplits(text, s, e)
    IN  IF splits = {} THEN Null
        ELSE LET ij == GreedySplit(splits)
             IN  [t |-> "match",
                  g1 |-> SubSeq(text, s, ij[1] - 1),
                  g2 |-> SubSeq(text, ij[1] + 1, ij[2] - 1),
                  g3 |-> SubSeq(text, ij[2] + 1, e)]

\* observeMatches: every match of the pattern in text, in the order of the
\* exec loop (the g flag moves lastIndex past each match, ^ with the m flag
\* matches at the start of the text and after every line terminator)
RECURSIVE observeMatches(_, _)
observeMatches(text, s) ==
    IF s > Len(text) THEN <<>>
    ELSE LET e == LineEnd(text, s)
             m == ExecAt(text, s)
         IN  (IF m = Null THEN <<>> ELSE <<m>>) \o observeMatches(text, e + 2)

\* ------------------------------------------------------ documents, ranges
\* A document's text is known by the lengths of its lines (one or more).
LineCount(lineLengths) == Len(lineLengths)

Position(line, character) == [line |-> line, character |-> character]

\* a mutant: a position behind the last line keeps its character, cut to
\* the length of the last line
validatePositionKeepsCharacter(lineLengths, position) ==
    IF position.line < 0 THEN Position(0, 0)
    ELSE LET line == Min(position.line, LineCount(lineLengths) - 1)
         IN  Position(line,
                      IF position.character < 0 THEN 0
                      ELSE Min(position.character, lineLengths[line + 1]))

\* TextDocument.validatePosition
validatePosition(lineLengths, position) ==
    IF position.line < 0 THEN Position(0, 0)
    ELSE IF position.line >= LineCount(lineLengths)
         THEN Position(LineCount(lineLengths) - 1,
                       lineLengths[LineCount(lineLengths)])
    ELSE Position(position.line,
                  IF position.character < 0 THEN 0
                  ELSE Min(position.character, lineLengths[position.line + 1]))

\* TextDocument.validateRange
validateRange(lineLengths, range) ==
    [start |-> validatePosition(lineLengths, range.start),
     end |-> validatePosition(lineLengths, range.end)]

\* new Range(startLine, startCharacter, endLine, endCharacter): the Position
\* constructor throws on a negative line or character
RangeThrows(startLine, startCharacter, endLine, endCharacter) ==
    startLine < 0 \/ startCharacter < 0 \/ endLine < 0 \/ endCharacter < 0

Range(startLine, startCharacter, endLine, endCharacter) ==
    [start |-> Position(startLine, startCharacter),
     end |-> Position(endLine, endCharacter)]

\* ------------------------------------------------------- parseFishErrors
\* Uri.toString without a call: the method itself, the same function object
\* for every Uri
UriToStringMethod(uri) == "Uri.prototype.toString"

\* os.homedir()
HomeDir == <<"/", "h">>

\* Uri.file: a path that does not start with a slash gets one
UriFile(path) ==
    [scheme |-> "file",
     path |-> IF path # <<>> /\ path[1] = "/" THEN path ELSE <<"/">> \o path]

\* expandUser: path.replace(/^~($|\/|\\)/, homedir + $1) puts the home
\* directory in the place of a tilde at the start that ends the path or
\* stands before a separator (the token "/"), then Uri.file
expandUser(path) ==
    UriFile(IF /\ path # <<>> /\ path[1] = "~"
               /\ (Len(path) = 1 \/ path[2] = "/")
            THEN HomeDir \o Tail(path)
            ELSE path)

\* the first map of parseFishErrors
MatchToError(match) ==
    [fileName |-> match.g1,
     lineNumber |-> ParseInt(match.g2),
     message |-> match.g3]

\* the filter of parseFishErrors
SameFileFilter(documentUri, error) ==
    UriToStringMethod(expandUser(error.fileName))
        = UriToStringMethod(documentUri)

\* a mutant: the diagnostic is put on the one-based line
DiagnosticLineOneBased(lineNumber) == lineNumber

\* the zero-based line the diagnostic's range is built on
DiagnosticLine(lineNumber) == lineNumber - 1

\* the second map of parseFishErrors, for an error on which Range does not
\* throw
ErrorToDiagnostic(lineLengths, error) ==
    LET line == DiagnosticLine(error.lineNumber)
    IN  [range |-> validateRange(lineLengths,
                                 Range(line, 0, line, MAX_VALUE)),
         message |-> error.message,
         source |-> "fish"]

RECURSIVE MapToErrors(_)
\* .map over the matches
MapToErrors(matches) ==
    IF matches = <<>> THEN <<>>
    ELSE <<MatchToError(matches[1])>> \o MapToErrors(Tail(matches))

RECURSIVE FilterSameFile(_, _)
\* .filter over the errors
FilterSameFile(documentUri, errors) ==
    IF errors = <<>> THEN <<>>
    ELSE (IF SameFileFilter(documentUri, errors[1]) THEN <<errors[1]>>
          ELSE <<>>) \o FilterSameFile(documentUri, Tail(errors))

RECURSIVE MapToDiagnostics(_, _)
\* .map over the errors that are left
MapToDiagnostics(lineLengths, errors) ==
    IF errors = <<>> THEN <<>>
    ELSE <<ErrorToDiagnostic(lineLengths, errors[1])>>
         \o MapToDiagnostics(lineLengths, Tail(errors))

\* parseFishErrors: what the observable delivers, either one array of
\* diagnostics (toArray) or the error thrown by the Range constructor
parseFishErrors(documentUri, lineLengths, output) ==
    LET errors == FilterSameFile(documentUri,
                                 MapToErrors(observeMatches(output, 1)))
        throws == \E k \in 1..Len(errors) :
                     LET line == DiagnosticLine(errors[k].lineNumber)
                     IN  RangeThrows(line, 0, line, MAX_VALUE)
    IN  IF throws THEN [kind |-> "error", error |-> "illegal argument"]
        ELSE [kind |-> "next",
              value |-> MapToDiagnostics(lineLengths, errors)]

\* -------------------------------------------------------- runInWorkspace
\* isSystemError
isSystemError(error) ==
    error.errno # Undefined /\ error.errno.t = "string"

\* isProcessError
isProcessError(error) ==
    /\ ~isSystemError(error)
    /\ error.code # Undefined
    /\ GreaterThanZero(error.code)

\* The error objects execFile hands to its callback: none (null), a spawn
\* failure, an exit with code 1 or 2, a child killed by a signal (code
\* null) and an error without a code (output larger than maxBuffer).
SpawnError == [errno |-> Str("ENOENT"), code |-> Str("ENOENT")]
ExitError(c) == [errno |-> Undefined, code |-> Num(c)]
KilledError == [errno |-> Undefined, code |-> Null]
BufferError == [errno |-> Undefined, code |-> Undefined]
ExitErrors == {ExitError(1), ExitError(2)}
FailureErrors == {SpawnError, KilledError, BufferError}
ExecErrors == {Null} \cup ExitErrors \cup FailureErrors

\* a mutant: every error of execFile, an exit code too, fails the observable
ExecFileCallbackFailsOnExitCode(error, stdout, stderr) ==
    IF error # Null
    THEN <<[kind |-> "error", error |-> error]>>
    ELSE <<[kind |-> "next",
            value |-> [stdout |-> stdout, stderr |-> stderr, exitCode |-> 0]],
           [kind |-> "complete"]>>

\* the callback runInWorkspace gives to execFile: the notifications it
\* sends to the observer
ExecFileCallback(error, stdout, stderr) ==
    IF error # Null /\ ~isProcessError(error)
    THEN <<[kind |-> "error", error |-> error]>>
    ELSE <<[kind |-> "next",
            value |-> [stdout |-> stdout, stderr |-> stderr,
                       exitCode |-> IF error # Null THEN error.code.v
                                    ELSE 0]],
           [kind |-> "complete"]>>

\* if (stdin) { child.stdin.end(stdin); }: whether the child's standard
\* input is written and closed; stdin is Undefined or Str(text)
StdinEnded(stdin) == stdin.t = "string" /\ stdin.v # <<>>

\* -------------------------------------------------------------- variables
VARIABLES
    \* parseFishErrors applied to one output
    pOutput, pLineLengths, pResult,
    \* runInWorkspace: the invocations and what each observer received
    runs,
    \* activate
    activation, lintingStarted, registered,
    \* the objects whose closed flag is set (rx subscriptions and the
    \* disposables pushed to context.subscriptions), the diagnostic collection
    closedFlag, diagDisposed, disposed, diagnostics,
    \* the editor's documents
    isOpen, isDirty,
    \* the running `fish -n` children and the number started per document
    procs, started,
    \* whether a `fish -n` run has ended in a system error
    runFailed,
    \* the format requests
    requests,
    \* the handler that ran last and the host calls it made
    last

parseVars == <<pOutput, pLineLengths, pResult>>
lintVars == <<activation, lintingStarted, registered, closedFlag,
              diagDisposed, disposed, diagnostics, isOpen, isDirty, procs,
              started, runFailed>>
vars == <<pOutput, pLineLengths, pResult, runs, activation, lintingStarted,
          registered, closedFlag, diagDisposed, disposed,
          diagnostics, isOpen, isDirty, procs, started, runFailed, requests,
          last>>

\* -------------------------------------------------------------- documents
\* d1 and d2 are Fish files, whose open and dirty state the model follows;
\* d3 is an untitled Fish document and d4 a plain text file, both open and
\* unmodified throughout.
TrackedDocs == {"d1", "d2"}
OtherDocs == {"d3", "d4"}
Docs == TrackedDocs \cup OtherDocs

DocOrder == <<"d1", "d2", "d3", "d4">>

Language(d) == IF d = "d4" THEN "plaintext" ELSE "fish"
Scheme(d) == IF d = "d3" THEN "untitled" ELSE "file"
\* d2 is empty, the others hold "x" and a line terminator
DocLineLengths(d) == IF d = "d2" THEN <<0>> ELSE <<1, 0>>
DocUri(d) == [scheme |-> Scheme(d), path |-> <<d>>]

IsOpenDoc(d) == IF d \in TrackedDocs THEN isOpen[d] ELSE TRUE
IsDirtyDoc(d) == IF d \in TrackedDocs THEN isDirty[d] ELSE FALSE

\* vscode.languages.match({language: "fish", scheme: "file"}, document)
LanguagesMatch(d) ==
    IF Language(d) = "fish" /\ Scheme(d) = "file" THEN 10 ELSE 0

\* a mutant: the dirty flag is not looked at
isSavedFishDocumentIgnoringDirty(dirty, d) == 0 < LanguagesMatch(d)

\* isSavedFishDocument, for a document whose isDirty is `dirty`
isSavedFishDocument(dirty, d) == ~dirty /\ 0 < LanguagesMatch(d)

\* ------------------------------------------------- initial values, shared
None == [kind |-> "none"]
NoCalls == <<>>
Handled(handler, d, error, stdout, calls) ==
    [handler |-> handler, doc |-> d, error |-> error, stdout |-> stdout,
     calls |-> calls, run |-> 0, stderr |-> <<>>]
Idle == Handled("none", "", Null, <<>>, NoCalls)

ParseIdle ==
    /\ pOutput = <<>> /\ pLineLengths = <<0>> /\ pResult = None

RunsIdle == runs = <<>>

LintIdle ==
    /\ activation = "inactive"
    /\ lintingStarted = 0
    /\ registered = [p \in {"document", "range"} |-> 0]
    /\ closedFlag = {}
    /\ diagDisposed = FALSE
    /\ disposed = FALSE
    /\ diagnostics = [d \in Docs |-> None]
    /\ isOpen = [d \in TrackedDocs |-> FALSE]
    /\ isDirty = [d \in TrackedDocs |-> FALSE]
    /\ procs = {}
    /\ started = [d \in Docs |-> 0]
    /\ runFailed = FALSE

FormatIdle == requests = <<>>

\* ------------------------------------------ specification: parseFishErrors
TextsUpTo(n) == UNION {[1..k -> Tokens] : k \in 0..n}

\* outputs longer than MaxTextLen: two and three lines, a repeated
\* " (line N): ", a number of two digits, a trailing line terminator, and
\* lines that name the document, with a tilde and without, or almost
SampleOutputs ==
    {<<"x", "L", "1", "R", "x", "NL", "x", "x", "L", "1", "0", "R", "x", "x">>,
     <<"x", "L", "1", "R", "x", "L", "1", "0", "R", "x", "x", "NL">>,
     <<"x", "x", "NL", "x", "L", "1", "R", "x", "x", "NL",
       "x", "L", "1", "R", "x", "NL">>,
     <<"x", "L", "1", "R", "x", "NL", "x", "L", "0", "R", "x", "NL">>,
     <<"x", "L", "1", "1", "R", "R", "NL", "L", "1", "R", "x">>,
     <<"~", "/", "x", "L", "1", "R", "x", "NL">>,
     <<"/", "h", "/", "x", "L", "1", "R", "x", "NL",
       "~", "x", "L", "1", "R", "x", "NL">>}

SampleDocuments == {<<0>>, <<2, 0>>, <<1, 2>>}

\* the document the output is parsed for: the file x of the home directory
ParseDocument == UriFile(HomeDir \o <<"/", "x">>)

ParseInit ==
    /\ pOutput \in TextsUpTo(MaxTextLen) \cup SampleOutputs
    /\ pLineLengths \in SampleDocuments
    /\ pResult = None
    /\ RunsIdle /\ LintIdle /\ FormatIdle
    /\ last = Idle

Parse ==
    /\ pResult = None
    /\ pResult' = parseFishErrors(ParseDocument, pLineLengths, pOutput)
    /\ UNCHANGED <<pOutput, pLineLengths, runs, requests, last>>
    /\ UNCHANGED lintVars

ParseNext == Parse

SpecParse == ParseInit /\ [][ParseNext]_vars

\* ----------------------------------------------------------- host calls
\* what a handler asks of the host: execFile, showErrorMessage, the
\* operations of the diagnostic collection
Call(op, d, value) == [op |-> op, doc |-> d, value |-> value]
Entry(value) == [kind |-> "entry", value |-> value]
Command(argv) == [kind |-> "command", argv |-> argv]
ExecLint(d) == Call("execFile", d, Command(<<"fish", "-n">>))
ExecVersion == Call("execFile", "", Command(<<"fish", "--version">>))
ShowError(d) == Call("showErrorMessage", d, None)
DiagnosticsSet(d, value) == Call("diagnostics.set", d, Entry(value))
DiagnosticsDelete(d) == Call("diagnostics.delete", d, None)
DiagnosticsDispose == Call("diagnostics.dispose", "", None)

DiagnosticsOps == {"diagnostics.set", "diagnostics.delete"}

\* the diagnostic collection after the calls, made in order
RECURSIVE ApplyCalls(_, _)
ApplyCalls(collection, calls) ==
    IF calls = <<>> THEN collection
    ELSE LET c == calls[1]
             next == IF c.op = "diagnostics.set"
                     THEN [collection EXCEPT ![c.doc] = c.value]
                     ELSE IF c.op = "diagnostics.delete"
                     THEN [collection EXCEPT ![c.doc] = None]
                     ELSE IF c.op = "diagnostics.dispose"
                     THEN [d \in Docs |-> None]
                     ELSE collection
         IN  ApplyCalls(next, Tail(calls))

\* a disposed collection throws on set and on delete
UsesDiagnostics(calls) ==
    \E k \in 1..Len(calls) : calls[k].op \in DiagnosticsOps

\* the documents for which the calls start a `fish -n` child
Spawned(calls) ==
    {calls[k].doc : k \in {i \in 1..Len(calls) : calls[i] = ExecLint(calls[i].doc)}}

\* ------------------------------------------------------------ startLinting
Subscription(name) == [object |-> "subscription", of |-> name]
Disposable(name) == [object |-> "disposable", of |-> name]

\* a subscription made by startLinting that is not closed
Live(name) == lintingStarted > 0 /\ Subscription(name) \notin closedFlag

\* the object on which unsubscribe runs when the host calls dispose() on
\* { dispose: subscription.unsubscribe }: the method is taken off the
\* subscription, so `this` is the object that holds it as dispose
DisposeReceiver(name) == Disposable(name)

\* lintDocument: what the observable delivers for the callback's arguments,
\* the diagnostics parsed from stderr or an error
lintDocument(d, error, stderr) ==
    LET notifications == ExecFileCallback(error, <<>>, stderr)
    IN  IF notifications[1].kind = "error" THEN notifications[1]
        ELSE parseFishErrors(DocUri(d), DocLineLengths(d),
                             notifications[1].value.stderr)

\* the filter and the map of the linting pipeline for a document pushed by
\* the open documents, an open event or a save event
LintingOnDocument(dirty, d) ==
    IF isSavedFishDocument(dirty, d) THEN <<ExecLint(d)>> ELSE NoCalls

\* a mutant: the catch handler shows the message and keeps the diagnostics
LintingCatchKeepsDiagnostics(d) == <<ShowError(d)>>

\* the catch handler of the linting pipeline
LintingCatch(d) == <<ShowError(d), DiagnosticsDelete(d)>>

\* a mutant: the catch handler throws the error again
LintingCaughtRethrows(delivered) == delivered

\* what the inner observable of a document hands to mergeAll: the catch
\* handler puts Observable.empty() in the place of an error
LintingCaught(delivered) ==
    IF delivered.kind = "error" THEN [kind |-> "complete"] ELSE delivered

\* a mutant: the subscriber sets an entry only for a list with diagnostics
LintingOnResultSkipsEmpty(d, delivered) ==
    IF delivered.kind = "error" THEN LintingCatch(d)
    ELSE IF delivered.value = <<>> THEN NoCalls
    ELSE <<DiagnosticsSet(d, delivered.value)>>

\* the catch handler and the subscriber of the linting pipeline for what
\* lintDocument delivers
LintingOnResult(d, delivered) ==
    IF delivered.kind = "error" THEN LintingCatch(d)
    ELSE <<DiagnosticsSet(d, delivered.value)>>

\* the subscriber of the closed pipeline
ClosedOnDocument(d) == <<DiagnosticsDelete(d)>>

RECURSIVE SumStarted(_)
SumStarted(k) ==
    IF k > Len(DocOrder) THEN 0 ELSE started[DocOrder[k]] + SumStarted(k + 1)

\* the number of `fish -n` children started so far
StartedInAll == SumStarted(1)

\* the notification of an event of the editor
Event == [kind |-> "next"]

\* The state after a handler of subscription `name` made `calls` for the
\* notification `merged`, with `running` the children that are left: the
\* children started, the collection changed.  A call that throws (on the
\* disposed collection) inside a subscriber unsubscribes it, and so does
\* an error notification, for which the subscribers have no handler.
Perform(name, running, calls, merged) ==
    /\ StartedInAll + Cardinality(Spawned(calls)) <= MaxRuns
    /\ procs' = running \cup
                {[doc |-> d, n |-> started[d] + 1] : d \in Spawned(calls)}
    /\ started' = [d \in Docs |->
                      IF d \in Spawned(calls) THEN started[d] + 1
                      ELSE started[d]]
    /\ diagnostics' = IF diagDisposed THEN diagnostics
                      ELSE ApplyCalls(diagnostics, calls)
    /\ closedFlag' = IF \/ diagDisposed /\ UsesDiagnostics(calls)
                        \/ merged.kind = "error"
                     THEN closedFlag \cup {Subscription(name)}
                     ELSE closedFlag

\* ------------------------------------------------------------- activate
VersionOutputs ==
    {<<>>, <<"V", "x">>, <<"x", "NL", "V", "x", "x", "NL">>, <<"V">>,
     <<"x", "V", "x">>, <<"V", "NL", "x">>}

\* the places where /^fish, version (.+)$/m matches: a line that starts
\* with "fish, version " and goes on
RECURSIVE VersionMatches(_, _)
VersionMatches(stdout, s) ==
    IF s > Len(stdout) THEN <<>>
    ELSE LET e == LineEnd(stdout, s)
         IN  (IF stdout[s] = "V" /\ e > s
              THEN <<SubSeq(stdout, s + 1, e)>> ELSE <<>>)
             \o VersionMatches(stdout, e + 2)

\* getFishVersion: what the observable delivers for the callback's
\* arguments, the version or an error
getFishVersion(error, stdout) ==
    LET notifications == ExecFileCallback(error, stdout, <<>>)
    IN  IF notifications[1].kind = "error" THEN notifications[1]
        ELSE LET matches == VersionMatches(notifications[1].value.stdout, 1)
             IN  IF matches # <<>>
                 THEN [kind |-> "next", value |-> matches[1]]
                 ELSE [kind |-> "error", error |-> "no version"]

\* Observable.from(vscode.workspace.textDocuments) through the filter and
\* the map: the calls for the documents open when startLinting subscribes
RECURSIVE LintingOnOpenDocuments(_)
LintingOnOpenDocuments(k) ==
    IF k > Len(DocOrder) THEN NoCalls
    ELSE (IF IsOpenDoc(DocOrder[k])
          THEN LintingOnDocument(IsDirtyDoc(DocOrder[k]), DocOrder[k])
          ELSE NoCalls) \o LintingOnOpenDocuments(k + 1)

\* a mutant: linting starts and the providers are registered whatever
\* getFishVersion delivers
ActivationProceedsAlways(version) == TRUE

\* whether the do() of activate runs: only on a version
ActivationProceeds(version) == version.kind = "next"

\* ---------------------------------------------- specification: the extension
Init ==
    /\ ParseIdle /\ RunsIdle /\ LintIdle /\ FormatIdle
    /\ last = Idle

\* the host calls activate: getFishVersion starts `fish --version`
Activate ==
    /\ activation = "inactive"
    /\ activation' = "pending"
    /\ last' = Handled("activate", "", Null, <<>>, <<ExecVersion>>)
    /\ UNCHANGED <<lintingStarted, registered, closedFlag, diagDisposed,
                   disposed, diagnostics, isOpen, isDirty, procs, started>>
    /\ UNCHANGED <<runFailed, runs, requests>>
    /\ UNCHANGED parseVars

\* `fish --version` ends: the rest of activate
VersionExit ==
    \E error \in ExecErrors, stdout \in VersionOutputs :
        LET version == getFishVersion(error, stdout)
            calls == IF ActivationProceeds(version)
                     THEN LintingOnOpenDocuments(1) ELSE NoCalls
        IN  /\ activation = "pending"
            /\ activation' = IF version.kind = "next" THEN "resolved"
                             ELSE "rejected"
            /\ lintingStarted' = IF ActivationProceeds(version)
                                 THEN lintingStarted + 1 ELSE lintingStarted
            /\ registered' = IF ActivationProceeds(version)
                             THEN [p \in DOMAIN registered |->
                                      registered[p] + 1]
                             ELSE registered
            /\ Perform("linting", procs, calls, Event)
            /\ last' = Handled("versionExit", "", error, stdout, calls)
            /\ UNCHANGED <<diagDisposed, disposed, isOpen, isDirty>>
            /\ UNCHANGED <<runFailed, runs, requests>>
            /\ UNCHANGED parseVars

\* onDidOpenTextDocument
OpenTextDocument ==
    \E d \in Docs, dirty \in BOOLEAN :
        LET calls == IF Live("linting") THEN LintingOnDocument(dirty, d)
                     ELSE NoCalls
        IN  /\ d \in TrackedDocs => ~isOpen[d]
            /\ isOpen' = IF d \in TrackedDocs
                         THEN [isOpen EXCEPT ![d] = TRUE] ELSE isOpen
            /\ isDirty' = IF d \in TrackedDocs
                          THEN [isDirty EXCEPT ![d] = dirty] ELSE isDirty
            /\ Perform("linting", procs, calls, Event)
            /\ last' = Handled("open", d, Null, <<>>, calls)
            /\ UNCHANGED <<activation, lintingStarted, registered,
                           diagDisposed, disposed>>
            /\ UNCHANGED <<runFailed, runs, requests>>
            /\ UNCHANGED parseVars

\* the user edits an open document: it is dirty, no handler runs
EditTextDocument ==
    \E d \in TrackedDocs :
        /\ isOpen[d] /\ ~isDirty[d]
        /\ isDirty' = [isDirty EXCEPT ![d] = TRUE]
        /\ last' = Handled("edit", d, Null, <<>>, NoCalls)
        /\ UNCHANGED <<activation, lintingStarted, registered, closedFlag,
                       diagDisposed, disposed, diagnostics, isOpen, procs,
                       started>>
        /\ UNCHANGED <<runFailed, runs, requests>>
        /\ UNCHANGED parseVars

\* onDidSaveTextDocument: the document is written and no longer dirty
SaveTextDocument ==
    \E d \in Docs :
        LET calls == IF Live("linting") THEN LintingOnDocument(FALSE, d)
                     ELSE NoCalls
        IN  /\ d \in TrackedDocs => isOpen[d]
            /\ isDirty' = IF d \in TrackedDocs
                          THEN [isDirty EXCEPT ![d] = FALSE] ELSE isDirty
            /\ Perform("linting", procs, calls, Event)
            /\ last' = Handled("save", d, Null, <<>>, calls)
            /\ UNCHANGED <<activation, lintingStarted, registered,
                           diagDisposed, disposed, isOpen>>
            /\ UNCHANGED <<runFailed, runs, requests>>
            /\ UNCHANGED parseVars

\* onDidCloseTextDocument
CloseTextDocument ==
    \E d \in Docs :
        LET calls == IF Live("closed") THEN ClosedOnDocument(d) ELSE NoCalls
        IN  /\ d \in TrackedDocs => isOpen[d]
            /\ isOpen' = IF d \in TrackedDocs
                         THEN [isOpen EXCEPT ![d] = FALSE] ELSE isOpen
            /\ isDirty' = IF d \in TrackedDocs
                          THEN [isDirty EXCEPT ![d] = FALSE] ELSE isDirty
            /\ Perform("closed", procs, calls, Event)
            /\ last' = Handled("close", d, Null, <<>>, calls)
            /\ UNCHANGED <<activation, lintingStarted, registered,
                           diagDisposed, disposed>>
            /\ UNCHANGED <<runFailed, runs, requests>>
            /\ UNCHANGED parseVars

\* what `fish -n` may write to standard error: nothing, an error on line
\* 1, an error on line 0
LintOutputs ==
    {<<>>, <<"x", "L", "1", "R", "x", "NL">>, <<"x", "L", "0", "R", "x", "NL">>}

\* how a `fish -n` child may end: with exit code 0 or 1 and any of the
\* outputs, or not started or killed, without output
LintEndings ==
    ({Null, ExitError(1)} \X LintOutputs) \cup ({SpawnError, KilledError} \X {<<>>})

\* a `fish -n` child ends: the callback of runInWorkspace and the rest of
\* the linting pipeline
LintExit ==
    \E p \in procs, ending \in LintEndings :
        LET error == ending[1]
            stderr == ending[2]
            delivered == lintDocument(p.doc, error, stderr)
            calls == IF Live("linting") THEN LintingOnResult(p.doc, delivered)
                     ELSE NoCalls
        IN  /\ Perform("linting", procs \ {p}, calls,
                       LintingCaught(delivered))
            /\ runFailed' = (runFailed \/ (error # Null /\ isSystemError(error)))
            /\ last' = [Handled("lintExit", p.doc, error, <<>>, calls)
                            EXCEPT !.run = p.n, !.stderr = stderr]
            /\ UNCHANGED <<activation, lintingStarted, registered,
                           diagDisposed, disposed, isOpen, isDirty>>
            /\ UNCHANGED <<runs, requests>>
            /\ UNCHANGED parseVars

\* the host deactivates the extension: it calls dispose() on every entry of
\* context.subscriptions, the diagnostic collection, the two disposables
\* of startLinting and the two provider registrations
Dispose ==
    /\ activation = "resolved" /\ ~disposed
    /\ disposed' = TRUE
    /\ diagDisposed' = TRUE
    /\ diagnostics' = ApplyCalls(diagnostics, <<DiagnosticsDispose>>)
    /\ closedFlag' = closedFlag \cup
                     {DisposeReceiver("linting"), DisposeReceiver("closed")}
    /\ last' = Handled("dispose", "", Null, <<>>, <<DiagnosticsDispose>>)
    /\ UNCHANGED <<activation, lintingStarted, registered, isOpen, isDirty,
                   procs, started>>
    /\ UNCHANGED <<runFailed, runs, requests>>
    /\ UNCHANGED parseVars

Next ==
    \/ Activate
    \/ VersionExit
    \/ OpenTextDocument
    \/ EditTextDocument
    \/ SaveTextDocument
    \/ CloseTextDocument
    \/ LintExit
    \/ Dispose

Spec == Init /\ [][Next]_vars

\* ----------------------------------------- specification: runInWorkspace
SampleTexts == {<<>>, <<"x">>}
RunTexts == SampleTexts \cup {<<"x", "NL">>}
SampleStdins == {Undefined, Str(<<>>), Str(<<"x">>)}

\* `fish_indent` reads its standard input to the end before it exits;
\* `fish` does not read it
ReadsStdin(command) == command = "fish_indent"

\* whether a child may end with `error`: an exit, with code 0 or not, of a
\* child that reads its standard input needs that input closed
MayEnd(command, stdinEnded, error) ==
    (error = Null \/ error \in ExitErrors) /\ ReadsStdin(command)
        => stdinEnded

RunInit ==
    /\ runs = <<>>
    /\ ParseIdle /\ LintIdle /\ FormatIdle
    /\ last = Idle

\* an observable of runInWorkspace is subscribed: execFile starts the child
RunSubscribe ==
    \E command \in {"fish", "fish_indent"}, stdin \in SampleStdins :
        /\ Len(runs) < MaxInvocations
        /\ runs' = Append(runs, [command |-> command,
                                 stdinEnded |-> StdinEnded(stdin),
                                 state |-> "running",
                                 error |-> Null,
                                 stdout |-> <<>>,
                                 stderr |-> <<>>,
                                 received |-> <<>>])
        /\ UNCHANGED <<requests, last>>
        /\ UNCHANGED lintVars
        /\ UNCHANGED parseVars

\* the child ends and execFile calls the callback, once
RunChildExit ==
    \E i \in DOMAIN runs, error \in ExecErrors,
       stdout \in RunTexts, stderr \in SampleTexts :
        /\ runs[i].state = "running"
        /\ MayEnd(runs[i].command, runs[i].stdinEnded, error)
        /\ runs' = [runs EXCEPT ![i] =
                       [@ EXCEPT !.state = "exited",
                                 !.error = error,
                                 !.stdout = stdout,
                                 !.stderr = stderr,
                                 !.received =
                                    @ \o ExecFileCallback(error, stdout,
                                                          stderr)]]
        /\ UNCHANGED <<requests, last>>
        /\ UNCHANGED lintVars
        /\ UNCHANGED parseVars

RunNext == RunSubscribe \/ RunChildExit

SpecRun == RunInit /\ [][RunNext]_vars

\* ---------------------------------------------- the formatting providers
ExecIndent(d) == Call("execFile", d, Command(<<"fish_indent">>))
ShowIndentError(d) == Call("showErrorMessage", d, Command(<<"fish_indent">>))

RECURSIVE TextOfLines(_, _)
\* the text of a document, from its line k on
TextOfLines(lineLengths, k) ==
    [i \in 1..lineLengths[k] |-> "x"]
    \o (IF k = Len(lineLengths) THEN <<>>
        ELSE <<"NL">> \o TextOfLines(lineLengths, k + 1))

RECURSIVE OffsetAt(_, _)
\* the number of characters before a valid position
OffsetAt(lineLengths, position) ==
    IF position.line = 0 THEN position.character
    ELSE lineLengths[1] + 1
         + OffsetAt(Tail(lineLengths),
                    Position(position.line - 1, position.character))

\* TextDocument.getText of a valid range
getText(lineLengths, range) ==
    SubSeq(TextOfLines(lineLengths, 1),
           OffsetAt(lineLengths, range.start) + 1,
           OffsetAt(lineLengths, range.end))

WholeDocument == Range(0, 0, MAX_VALUE, MAX_VALUE)

\* the ranges a range format request may come with: the first character,
\* an empty selection and a selection that ends behind the second line
SampleRanges == {Range(0, 0, 0, 1), Range(0, 0, 0, 0), Range(0, 0, 1, 2)}

\* a mutant: the exit code is not looked at
ExitCodeFilterAny(result) == TRUE

\* the filter of getFormatRangeEdits
ExitCodeFilter(result) == result.exitCode = 0

\* a mutant: the catch shows no message and completes instead of throwing
\* the error again
getFormatRangeEditsSwallowsError(actualRange, error, stdout) ==
    LET notifications == ExecFileCallback(error, stdout, <<>>)
    IN  IF notifications[1].kind = "error" THEN [kind |-> "complete"]
        ELSE IF ExitCodeFilter(notifications[1].value)
        THEN [kind |-> "next",
              value |-> <<[range |-> actualRange,
                           newText |-> notifications[1].value.stdout]>>]
        ELSE [kind |-> "complete"]

\* getFormatRangeEdits after the child ends: what the observable delivers,
\* one list of edits, nothing (kind "complete") or an error
getFormatRangeEdits(actualRange, error, stdout) ==
    LET notifications == ExecFileCallback(error, stdout, <<>>)
    IN  IF notifications[1].kind = "error" THEN notifications[1]
        ELSE IF ExitCodeFilter(notifications[1].value)
        THEN [kind |-> "next",
              value |-> <<[range |-> actualRange,
                           newText |-> notifications[1].value.stdout]>>]
        ELSE [kind |-> "complete"]

\* the host calls getFormatRangeEdits makes when the child ends
FormatCalls(d, error, stdout) ==
    IF getFormatRangeEdits(WholeDocument, error, stdout).kind = "error"
    THEN <<ShowIndentError(d)>> ELSE NoCalls

\* a mutant: the token is not looked at
TokenFilterIgnoresToken(isCancellationRequested) == TRUE

\* the filter of both providers
TokenFilter(isCancellationRequested) == ~isCancellationRequested

\* provideDocumentFormattingEdits and provideDocumentRangeFormattingEdits
\* after the child ends: how the promise settles
ProviderPromise(delivered, isCancellationRequested) ==
    IF delivered.kind = "error"
    THEN [state |-> "rejected", value |-> <<>>]
    ELSE IF delivered.kind = "next" /\ TokenFilter(isCancellationRequested)
    THEN [state |-> "resolved", value |-> delivered.value]
    ELSE [state |-> "resolved", value |-> <<>>]

\* ------------------------------------------- specification: format requests
\* the extension is activated, nothing is open
FormatInit ==
    /\ requests = <<>>
    /\ activation = "resolved"
    /\ lintingStarted = 1
    /\ registered = [p \in {"document", "range"} |-> 1]
    /\ closedFlag = {}
    /\ diagDisposed = FALSE
    /\ disposed = FALSE
    /\ diagnostics = [d \in Docs |-> None]
    /\ isOpen = [d \in TrackedDocs |-> FALSE]
    /\ isDirty = [d \in TrackedDocs |-> FALSE]
    /\ procs = {}
    /\ started = [d \in Docs |-> 0]
    /\ runFailed = FALSE
    /\ ParseIdle /\ RunsIdle
    /\ last = Idle

\* a request of `provider` for document d and a range (WholeDocument when
\* none is given): getFormatRangeEdits up to the start of the child
NewRequest(provider, d, range) ==
    LET actualRange == validateRange(DocLineLengths(d), range)
        stdin == Str(getText(DocLineLengths(d), actualRange))
    IN  /\ registered[provider] > 0 /\ ~disposed
        /\ Len(requests) < MaxRequests
        /\ requests' = Append(requests,
                              [provider |-> provider,
                               doc |-> d,
                               requested |-> range,
                               range |-> actualRange,
                               stdin |-> stdin,
                               stdinEnded |-> StdinEnded(stdin),
                               cancelled |-> FALSE,
                               state |-> "pending",
                               error |-> Null,
                               stdout |-> <<>>,
                               shown |-> 0,
                               value |-> <<>>])
        /\ last' = Handled(provider, d, Null, <<>>, <<ExecIndent(d)>>)

FormatDocs == {"d1", "d2"}

ProvideDocumentFormattingEdits ==
    \E d \in FormatDocs :
        /\ NewRequest("document", d, WholeDocument)
        /\ UNCHANGED <<runs>>
        /\ UNCHANGED lintVars
        /\ UNCHANGED parseVars

ProvideDocumentRangeFormattingEdits ==
    \E d \in FormatDocs, range \in SampleRanges :
        /\ NewRequest("range", d, range)
        /\ UNCHANGED <<runs>>
        /\ UNCHANGED lintVars
        /\ UNCHANGED parseVars

\* the host requests cancellation on the token of a pending request
CancelToken ==
    \E r \in DOMAIN requests :
        /\ requests[r].state = "pending"
        /\ ~requests[r].cancelled
        /\ requests' = [requests EXCEPT ![r].cancelled = TRUE]
        /\ last' = Handled("cancel", requests[r].doc, Null, <<>>, NoCalls)
        /\ UNCHANGED <<runs>>
        /\ UNCHANGED lintVars
        /\ UNCHANGED parseVars

\* how a `fish_indent` child may end: with exit code 0 and an output, with
\* exit code 1, or not started
IndentEndings ==
    ({Null} \X SampleTexts) \cup {<<ExitError(1), <<"x">>>>, <<SpawnError, <<>>>>}

\* the `fish_indent` child of a request ends: the callback of
\* runInWorkspace, the rest of getFormatRangeEdits and of the provider
IndentExit ==
    \E r \in DOMAIN requests, ending \in IndentEndings :
        LET req == requests[r]
            error == ending[1]
            stdout == ending[2]
            calls == FormatCalls(req.doc, error, stdout)
            promise == ProviderPromise(
                           getFormatRangeEdits(req.range, error, stdout),
                           req.cancelled)
        IN  /\ req.state = "pending"
            /\ MayEnd("fish_indent", req.stdinEnded, error)
            /\ requests' = [requests EXCEPT ![r] =
                               [@ EXCEPT !.state = promise.state,
                                         !.value = promise.value,
                                         !.error = error,
                                         !.stdout = stdout,
                                         !.shown = Len(calls)]]
            /\ last' = Handled("indentExit", req.doc, error, stdout, calls)
            /\ UNCHANGED <<runs>>
            /\ UNCHANGED lintVars
            /\ UNCHANGED parseVars

FormatNext ==
    \/ ProvideDocumentFormattingEdits
    \/ ProvideDocumentRangeFormattingEdits
    \/ CancelToken
    \/ IndentExit

SpecFormat == FormatInit /\ [][FormatNext]_vars

\* ------------------------------------------------------------ claim C4
\* the lines of a text, split at its line terminators
RECURSIVE SplitLines(_)
SplitLines(text) ==
    IF text = <<>> THEN <<>>
    ELSE LET e == LineEnd(text, 1)
         IN  <<SubSeq(text, 1, e)>>
             \o (IF e + 1 >= Len(text) THEN <<>>
                 ELSE SplitLines(SubSeq(text, e + 2, Len(text))))

\* the ways to read a line as `<file> (line <N>): <message>`
Readings(line) ==
    {r \in [file : {SubSeq(line, 1, i) : i \in 1..Len(line)},
            digits : {SubSeq(line, i, j) : i, j \in 1..Len(line)},
            message : {SubSeq(line, i, Len(line)) : i \in 1..Len(line)}] :
        /\ r.file # <<>> /\ r.digits # <<>> /\ r.message # <<>>
        /\ \A k \in 1..Len(r.digits) : r.digits[k] \in Digits
        /\ line = r.file \o <<"L">> \o r.digits \o <<"R">> \o r.message}

IsWellFormed(line) == Readings(line) # {}

\* the reading with the longest file name
LongestFileReading(line) ==
    CHOOSE r \in Readings(line) :
        \A other \in Readings(line) : Len(other.file) <= Len(r.file)

WellFormedLines(text) == SelectSeq(SplitLines(text), IsWellFormed)

\* C4 as claimed: the parse of any output yields, in the order of the
\* lines, one diagnostic per line of the form `<file> (line <N>): <message>`
\* and none for the other lines; each has that message, the source "fish"
\* and the zero-based line N - 1.
C4_DiagnosticOnLineNMinusOne ==
    pResult # None =>
        LET wf == WellFormedLines(pOutput)
        IN  /\ pResult.kind = "next"
            /\ Len(pResult.value) = Len(wf)
            /\ \A k \in 1..Len(wf) :
                  /\ pResult.value[k].source = "fish"
                  /\ \E r \in Readings(wf[k]) :
                        /\ pResult.value[k].message = r.message
                        /\ pResult.value[k].range.start.line
                              = ParseInt(r.digits) - 1
                        /\ pResult.value[k].range.end.line
                              = ParseInt(r.digits) - 1

\* C4 as amended: each well-formed line is read with the longest file name.
\* When one of them has the number 0 the parse fails with an error and
\* yields no diagnostics; otherwise it yields, in the order of the lines,
\* one diagnostic per well-formed line and none for the other lines, each
\* with that message, the source "fish" and the line N - 1, or the last
\* line of the document when N - 1 lies behind it.
C4_DiagnosticOnValidatedLine ==
    pResult # None =>
        LET wf == WellFormedLines(pOutput)
            last_line == LineCount(pLineLengths) - 1
        IN  IF \E k \in 1..Len(wf) :
                   ParseInt(LongestFileReading(wf[k]).digits) = 0
            THEN pResult.kind = "error"
            ELSE /\ pResult.kind = "next"
                 /\ Len(pResult.value) = Len(wf)
                 /\ \A k \in 1..Len(wf) :
                       LET r == LongestFileReading(wf[k])
                           line == Min(ParseInt(r.digits) - 1, last_line)
                       IN  /\ pResult.value[k].source = "fish"
                           /\ pResult.value[k].message = r.message
                           /\ pResult.value[k].range.start.line = line
                           /\ pResult.value[k].range.end.line = line

\* C4 witness: an output of three lines, one of them not well-formed, of
\* which the parse made two diagnostics on the first of the document's two
\* lines, the line both name
C4_Witness ==
    /\ pResult # None
    /\ pResult.kind = "next"
    /\ Len(SplitLines(pOutput)) = 3
    /\ Len(pResult.value) = 2
    /\ pResult.value[1].range.start.line = 0
    /\ pResult.value[2].range.start.line = 0
    /\ LineCount(pLineLengths) = 2

\* ------------------------------------------------------------ claim C1
RunsFor(d) == {p \in procs : p.doc = d}

\* C1 as claimed: open and save events are debounced per document, so at
\* most one `fish -n` run per document is in flight at any time.
C1_OneLintRunPerDocument ==
    \A d \in Docs : Cardinality(RunsFor(d)) <= 1

\* ------------------------------------------------------------ claim C2
\* the child of request r ended and runInWorkspace delivered a result
ResultDelivered(r) ==
    /\ requests[r].state # "pending"
    /\ (requests[r].error = Null \/ requests[r].error \in ExitErrors)

\* C2: a request of either provider whose token is cancelled when the
\* result of `fish_indent` is delivered resolves to the empty list of
\* edits, never to an edit that carries the output.
C2_CancelledRequestResolvesEmpty ==
    \A r \in DOMAIN requests :
        requests[r].cancelled /\ ResultDelivered(r) =>
            requests[r].state = "resolved" /\ requests[r].value = <<>>

\* C2 witness: one request of each provider, cancelled, whose child exited
\* with code 0 and an output, resolved to no edits
C2_Witness ==
    \E r1, r2 \in DOMAIN requests :
        /\ requests[r1].provider = "document"
        /\ requests[r2].provider = "range"
        /\ \A r \in {r1, r2} :
              /\ requests[r].cancelled
              /\ requests[r].state = "resolved"
              /\ requests[r].error = Null
              /\ requests[r].stdout # <<>>
              /\ requests[r].value = <<>>

\* ------------------------------------------------------------ claim C3
\* C3 as claimed: a request that waits for `fish_indent` while a newer
\* request for the same document exists never resolves to edits.
C3_SupersededRequestResolvesEmpty ==
    [][\A r \in DOMAIN requests :
          /\ requests[r].state = "pending"
          /\ requests'[r].state = "resolved"
          /\ \E newer \in DOMAIN requests :
                newer > r /\ requests[newer].doc = requests[r].doc
          => requests'[r].value = <<>>]_vars

\* ------------------------------------------------------------ claim C5
\* C5 as claimed: a request whose `fish_indent` child exits with a code
\* other than 0 has shown an error message by the time it is finished.
C5_ExitCodeShowsMessage ==
    \A r \in DOMAIN requests :
        requests[r].state # "pending" /\ requests[r].error \in ExitErrors
            => requests[r].shown >= 1

\* ------------------------------------------------------------ claim C6
\* execFile failed with a system error
FailedToRun(error) == error # Null /\ isSystemError(error)

\* C6: while the extension is active, a `fish -n` run that ends in a system
\* error shows an error message and deletes the document's entry, sets no
\* diagnostics and starts no further child.
C6_SystemErrorClearsDiagnostics ==
    [][last'.handler = "lintExit" /\ FailedToRun(last'.error) /\ ~disposed
          => /\ last'.calls
                   = <<ShowError(last'.doc), DiagnosticsDelete(last'.doc)>>
             /\ diagnostics'[last'.doc] = None
             /\ \A d \in Docs \ {last'.doc} : diagnostics'[d] = diagnostics[d]
             /\ procs' \subseteq procs
             /\ started' = started]_vars

\* C6 witness: a run for a document failed with a system error, the
\* message was shown and its entry deleted, another document keeps its
\* entry
C6_Witness ==
    /\ last.handler = "lintExit"
    /\ last.error = SpawnError
    /\ ~disposed
    /\ last.calls = <<ShowError(last.doc), DiagnosticsDelete(last.doc)>>
    /\ diagnostics[last.doc] = None
    /\ \E d \in Docs \ {last.doc} : diagnostics[d] # None

\* ------------------------------------------------------------ claim C7
\* a line of the form `fish, version <v>` is in the text
HasVersionLine(stdout) ==
    \E k \in 1..Len(SplitLines(stdout)) :
        /\ Len(SplitLines(stdout)[k]) >= 2
        /\ SplitLines(stdout)[k][1] = "V"

\* C7: when `fish --version` fails with a system error or prints no version
\* line, the promise of activate rejects, linting is not started and no
\* provider is registered, then or later; when it succeeds with a version
\* line, linting is started once and each provider registered once.
C7_ActivationNeedsFish ==
    /\ activation # "resolved" =>
          /\ lintingStarted = 0
          /\ \A p \in DOMAIN registered : registered[p] = 0
          /\ procs = {}
    /\ activation = "resolved" =>
          /\ lintingStarted = 1
          /\ \A p \in DOMAIN registered : registered[p] = 1
    /\ last.handler = "versionExit" =>
          /\ FailedToRun(last.error) \/ ~HasVersionLine(last.stdout)
                => activation = "rejected"
          /\ last.error = Null /\ HasVersionLine(last.stdout)
                => activation = "resolved"

\* C7 witness: `fish --version` exited with code 0 and printed text without
\* a version line, while a saved Fish document is open: activate rejected
C7_Witness ==
    /\ last.handler = "versionExit"
    /\ last.error = Null
    /\ last.stdout = <<"x", "V", "x">>
    /\ activation = "rejected"
    /\ \E d \in TrackedDocs : isOpen[d] /\ ~isDirty[d]

\* ------------------------------------------------------------ claim C8
\* C8 as claimed: once the host has disposed every entry of
\* context.subscriptions, no event starts a `fish -n` child and nothing
\* changes the diagnostic collection.
C8_NothingAfterDispose ==
    [][disposed => procs' \subseteq procs /\ diagnostics' = diagnostics]_vars

\* ------------------------------------------------------------ claim C9
\* C9: an invocation of runInWorkspace whose child is running has
\* delivered nothing; one whose child ended has delivered either one result
\* and the completion (exit code 0 after a success, c after an exit with
\* code c > 0, with the child's outputs) or one error, the one of execFile.
C9_OneOutcomePerInvocation ==
    \A i \in DOMAIN runs :
        LET run == runs[i]
            result(c) == [stdout |-> run.stdout, stderr |-> run.stderr,
                          exitCode |-> c]
        IN  IF run.state = "running" THEN run.received = <<>>
            ELSE IF run.error = Null
            THEN run.received = <<[kind |-> "next", value |-> result(0)],
                                  [kind |-> "complete"]>>
            ELSE IF run.error \in ExitErrors
            THEN run.received
                    = <<[kind |-> "next", value |-> result(run.error.code.v)],
                        [kind |-> "complete"]>>
            ELSE run.received = <<[kind |-> "error", error |-> run.error]>>

\* C9 witness: a child that exited with code 2 and wrote to both outputs,
\* delivered as a result with exit code 2
C9_Witness ==
    \E i \in DOMAIN runs :
        /\ runs[i].state = "exited"
        /\ runs[i].error = ExitError(2)
        /\ runs[i].stdout # <<>> /\ runs[i].stderr # <<>>
        /\ Len(runs[i].received) = 2
        /\ runs[i].received[1].value.exitCode = 2

\* ----------------------------------------------------------- claim C10
\* at the end of the step the document is not dirty, of language "fish"
\* and of scheme "file"
SavedFishFileThen(d) ==
    /\ d \in TrackedDocs => ~isDirty'[d]
    /\ Language(d) = "fish" /\ Scheme(d) = "file"

\* C10: activation, an open event or a save event starts a `fish -n` child
\* only for a document that is then not dirty, of language "fish" and of
\* scheme "file"; an open or save event of another document starts none
\* and leaves the diagnostic collection as it is.
C10_OnlySavedFishDocumentsLinted ==
    [][last'.handler \in {"versionExit", "open", "save"}
          => /\ \A p \in procs' \ procs : SavedFishFileThen(p.doc)
             /\ last'.handler \in {"open", "save"}
                /\ ~SavedFishFileThen(last'.doc)
                   => procs' = procs /\ diagnostics' = diagnostics]_vars

\* C10 witness: with linting live and a run in flight, the open event of a
\* dirty Fish file started nothing
C10_Witness ==
    /\ Live("linting")
    /\ last.handler = "open"
    /\ last.doc \in TrackedDocs
    /\ isDirty[last.doc]
    /\ last.calls = NoCalls
    /\ RunsFor(last.doc) = {}
    /\ procs # {}

\* ----------------------------------------------------------- claim C11
\* Uri.toString(): the text of a Uri
UriText(uri) == <<uri.scheme, ":", "/", "/">> \o uri.path

\* the well-formed line names the document, after tilde expansion
NamesDocument(line) ==
    UriText(expandUser(LongestFileReading(line).file)) = UriText(ParseDocument)

NamesParseDocument(line) == IsWellFormed(line) /\ NamesDocument(line)

\* C11 as claimed: the parse yields diagnostics only for the lines whose
\* file, after tilde expansion, is the document's; a line that names
\* another file yields none.
C11_DiagnosticsOnlyForDocument ==
    pResult # None /\ pResult.kind = "next" =>
        Len(pResult.value)
            = Len(SelectSeq(SplitLines(pOutput), NamesParseDocument))

\* ----------------------------------------------------------- claim C12
\* the range of the whole text of document d
WholeRange(d) ==
    LET lineLengths == DocLineLengths(d)
    IN  Range(0, 0, Len(lineLengths) - 1, lineLengths[Len(lineLengths)])

\* the range a request asks to format, within the document
RangeToFormat(r) ==
    IF requests[r].provider = "document" THEN WholeRange(requests[r].doc)
    ELSE validateRange(DocLineLengths(requests[r].doc), requests[r].requested)

\* C12: a request whose `fish_indent` child exits with code 0 while its
\* token is not cancelled resolves to exactly one edit, which replaces the
\* validated requested range (the whole document for a request without a
\* range) with the child's output; a request whose child exits with
\* another code resolves to the empty list of edits.
C12_ExitCodeZeroYieldsOneEdit ==
    \A r \in DOMAIN requests :
        requests[r].state # "pending" =>
            /\ requests[r].error = Null /\ ~requests[r].cancelled
                  => /\ requests[r].state = "resolved"
                     /\ requests[r].value
                           = <<[range |-> RangeToFormat(r),
                                newText |-> requests[r].stdout]>>
            /\ requests[r].error \in ExitErrors
                  => /\ requests[r].state = "resolved"
                     /\ requests[r].value = <<>>

\* C12 witness: a range request for a selection that ends behind the
\* document, resolved to one edit of the validated range after exit code 0,
\* and a request resolved to no edit after exit code 1 with an output
C12_Witness ==
    \E r1, r2 \in DOMAIN requests :
        /\ requests[r1].provider = "range"
        /\ requests[r1].requested # requests[r1].range
        /\ requests[r1].error = Null /\ ~requests[r1].cancelled
        /\ requests[r1].stdout # <<>>
        /\ Len(requests[r1].value) = 1
        /\ requests[r1].value[1].range = WholeRange(requests[r1].doc)
        /\ requests[r2].state = "resolved"
        /\ requests[r2].error = ExitError(1)
        /\ requests[r2].stdout # <<>>
        /\ ~requests[r2].cancelled
        /\ requests[r2].value = <<>>

\* ----------------------------------------------------------- claim C13
\* C13: a request whose `fish_indent` child fails with a system error has
\* shown the message "Failed to run fish_indent: ..." exactly once and its
\* promise is rejected, not resolved, whether or not its token is
\* cancelled.
C13_SystemErrorRejectsRequest ==
    \A r \in DOMAIN requests :
        requests[r].state # "pending" /\ FailedToRun(requests[r].error) =>
            /\ requests[r].shown = 1
            /\ requests[r].state = "rejected"
            /\ requests[r].value = <<>>

\* C13 witness: `fish_indent` could not be started for two requests, one
\* of them cancelled before; both showed the message once and rejected
C13_Witness ==
    \E r1, r2 \in DOMAIN requests :
        /\ requests[r1].cancelled /\ ~requests[r2].cancelled
        /\ \A r \in {r1, r2} :
              /\ requests[r].error = SpawnError
              /\ requests[r].state = "rejected"
              /\ requests[r].shown = 1
        /\ last.handler = "indentExit"
        /\ last.calls = <<ShowIndentError(last.doc)>>

\* ----------------------------------------------------------- claim C14
\* C14 as claimed: a document that is closed, from its close event to its
\* next open or save event, has no entry in the diagnostic collection,
\* also when a `fish -n` run for it was in flight at the close event.
C14_NoDiagnosticsWhileClosed ==
    \A d \in TrackedDocs : ~isOpen[d] => diagnostics[d] = None

\* ----------------------------------------------------------- claim C15
\* C15 as claimed: when the last `fish -n` run in flight for a document
\* ends while the extension is active, it is the run started by the most
\* recent open or save event of the document, so the entry it leaves is
\* that run's, in whatever order the runs ended.
C15_LastRunToEndIsNewest ==
    /\ last.handler = "lintExit" /\ ~disposed
    /\ RunsFor(last.doc) = {}
    => last.run = started[last.doc]

\* ----------------------------------------------------------- claim C16
\* C16 as claimed: for every format request, whatever the document's text
\* and the range, an empty document and an empty range included, the text
\* is written to the standard input of `fish_indent` and the input is
\* closed, so that the child, which exits once its input ends, can exit
\* and the promise settle.
C16_StdinClosedForEveryRequest ==
    \A r \in DOMAIN requests : requests[r].stdinEnded

\* ----------------------------------------------------------- claim C17
\* the stderr of a run for document d can be parsed into diagnostics
ParsesStderr(d, stderr) ==
    parseFishErrors(DocUri(d), DocLineLengths(d), stderr).kind = "next"

\* the handler that ran last handled a `fish -n` run that delivered a
\* result, an exit with code 0 or another code
RunDeliveredResult(handled) ==
    /\ handled.handler = "lintExit"
    /\ (handled.error = Null \/ handled.error \in ExitErrors)

\* C17: while the extension is active, once a `fish -n` run has ended in a
\* system error the linting pipeline is still subscribed: every later open
\* or save event of a saved Fish file starts a run for it, and every run
\* that then delivers a result whose stderr can be parsed leaves an entry
\* for its document in the diagnostic collection.
C17_FailedRunKeepsLinting ==
    [][/\ runFailed' /\ ~disposed' => Live("linting")'
       /\ runFailed /\ ~disposed =>
             /\ last'.handler \in {"open", "save"}
                /\ SavedFishFileThen(last'.doc)
                   => /\ last'.calls = <<ExecLint(last'.doc)>>
                      /\ \E p \in procs' \ procs : p.doc = last'.doc
             /\ RunDeliveredResult(last')
                /\ ParsesStderr(last'.doc, last'.stderr)
                   => /\ last'.calls # NoCalls
                      /\ diagnostics'[last'.doc] # None]_vars

\* C17 witness: after a run ended in a system error, the save event of a
\* Fish file has started a run for it
C17_Witness ==
    /\ runFailed /\ ~disposed
    /\ last.handler = "save"
    /\ last.calls = <<ExecLint(last.doc)>>
    /\ RunsFor(last.doc) # {}
    /\ diagnostics[last.doc] = None

\* ----------------------------------------------------------- claim C18
\* C18: while the extension is active, when a `fish -n` run for a document
\* delivers a result, the entries of the other documents are unchanged,
\* and when the run's stderr can be parsed the document's entry becomes
\* exactly the list parsed from it, the empty list when no line matches.
C18_ResultReplacesOwnEntryOnly ==
    [][RunDeliveredResult(last') /\ ~disposed =>
          LET d == last'.doc
              parsed == parseFishErrors(DocUri(d), DocLineLengths(d),
                                        last'.stderr)
          IN  /\ \A other \in Docs \ {d} :
                    diagnostics'[other] = diagnostics[other]
              /\ parsed.kind = "next" => diagnostics'[d] = Entry(parsed.value)
              /\ WellFormedLines(last'.stderr) = <<>>
                    => diagnostics'[d] = Entry(<<>>)]_vars

\* C18 witness: a run that exited with code 1 left a list with one
\* diagnostic as its document's entry, while another document keeps the
\* empty list that an earlier run left
C18_Witness ==
    /\ RunDeliveredResult(last) /\ ~disposed
    /\ last.error = ExitError(1)
    /\ diagnostics[last.doc] # None
    /\ Len(diagnostics[last.doc].value) = 1
    /\ \E other \in Docs \ {last.doc} : diagnostics[other] = Entry(<<>>)

\* ----------------------------------------------------------- claim C19
\* C19 as claimed: whatever the line numbers N in the output, 0 and numbers
\* behind the document included, the parse yields diagnostics, and the
\* range of each lies on one line of the document, from column 0 to the
\* end of that line.
C19_RangeSpansOneLine ==
    pResult # None =>
        /\ pResult.kind = "next"
        /\ \A k \in 1..Len(pResult.value) :
              LET range == pResult.value[k].range
              IN  /\ range.start.line \in 0..(LineCount(pLineLengths) - 1)
                  /\ range.end.line = range.start.line
                  /\ range.start.character = 0
                  /\ range.end.character = pLineLengths[range.end.line + 1]

\* the range of a diagnostic for the line number N >= 1
RangeOfLineNumber(lineLengths, N) ==
    LET last_line == LineCount(lineLengths) - 1
        last_end == lineLengths[LineCount(lineLengths)]
    IN  IF N <= LineCount(lineLengths)
        THEN Range(N - 1, 0, N - 1, lineLengths[N])
        ELSE Range(last_line, last_end, last_line, last_end)

\* C19 as amended: when a well-formed line has the number 0 the parse
\* fails and yields no diagnostic.  Otherwise every diagnostic belongs to
\* a well-formed line with a number N >= 1 and its range lies within the
\* document: for N up to the line count it spans line N - 1 from column 0
\* to its end, for a larger N it is the empty range at the end of the last
\* line.
C19_RangeWithinDocument ==
    pResult # None =>
        LET wf == WellFormedLines(pOutput)
            number(j) == ParseInt(LongestFileReading(wf[j]).digits)
        IN  IF \E j \in 1..Len(wf) : number(j) = 0
            THEN pResult.kind = "error"
            ELSE /\ pResult.kind = "next"
                 /\ \A k \in 1..Len(pResult.value) :
                       \E j \in 1..Len(wf) :
                          /\ pResult.value[k].message
                                = LongestFileReading(wf[j]).message
                          /\ pResult.value[k].range
                                = RangeOfLineNumber(pLineLengths, number(j))

\* C19 witness: of two diagnostics on a document whose last line is not
\* empty, one spans the first line and one, for a line number behind the
\* document, is the empty range at the end of the last line
C19_Witness ==
    /\ pResult # None
    /\ pResult.kind = "next"
    /\ pLineLengths = <<1, 2>>
    /\ Len(pResult.value) = 2
    /\ pResult.value[1].range = Range(0, 0, 0, 1)
    /\ pResult.value[2].range = Range(1, 2, 1, 2)

====
